---- MODULE Spec2Model ----
(***************************************************************************)
(* Vazal: an LLM-driven task agent (think / act loop), its lesson store,   *)
(* the answer extraction of its session drivers and the long-lived         *)
(* request/response process.                                               *)
(*                                                                         *)
(* Texts (prompts, message contents, answers) are sequences of tokens:     *)
(* the empty text is <<>> and Python's string + is \o.                     *)
(*                                                                         *)
(* Specifications:                                                         *)
(*   SpecLessons  the lesson stores (app/memory)                           *)
(*   SpecExtract  the drivers' final-answer extraction over message logs   *)
(*   SpecAgent    one agent session: tasks, think steps, act steps         *)
(*   SpecServer   the long-lived processes reading requests line by line   *)
(*   SpecWriters  writers sharing one lesson store                         *)
(*   SpecRetrieve lesson retrieval by either manager                       *)
(*   SpecClassify the intent classifiers                                   *)
(*   SpecBrowser  calls on one BrowserUseTool instance                     *)
(*   SpecTools    the tools' execute calls and how they end                *)
(*   SpecMigrate  a manager built on a lesson file of an earlier format    *)
(*   SpecSession  a session driver from its start to its exit              *)
(*   SpecEditor   one block_editor call on a file                          *)
(***************************************************************************)
EXTENDS Integers, Sequences, FiniteSets, TLC

VARIABLES
    \* ---- lesson stores -------------------------------------------------
    backend,          \* which memory manager the session uses: "json" | "vector"
    lessons,          \* LessonManager.lessons (in memory)
    lessons_file,     \* lessons.json on disk: [kind, data]
    collection,       \* the Chroma collection of VectorLessonManager (rows, in insertion order)
    last_save,        \* history: the store before the latest save_lesson call, and its argument
    \* ---- agent session -------------------------------------------------
    driver,           \* which session driver runs the agent
    system_prompt,    \* Vazal.system_prompt
    next_step_prompt, \* Vazal.next_step_prompt
    messages,         \* agent.memory.messages
    state,            \* "IDLE" (no task yet, or the task raised) | "RUNNING" | "TERMINATED"
    current_step,     \* step counter of the running task
    phase,            \* "think" | "act": what the running step does next
    tool_calls,       \* the tool calls the latest think step proposed
    session_open,     \* whether the driver still accepts tasks
    run_info,         \* history of the current / latest task
    llm_seen,         \* history: the latest think call, and what it gave the LLM
    think_calls,      \* number of think calls made on this session
    tasks_started,    \* number of tasks started on this session
    files_created,    \* whether find_output_files() finds recent files
    answer,           \* the final answer the driver extracted, or NoAnswer
    \* ---- long-lived process --------------------------------------------
    pc,               \* position of the process main loop
    stdin,            \* input lines not read yet
    sys_stdout,       \* what sys.stdout is bound to: "stdout" | "stderr"
    stdout_lines,     \* lines written to the real stdout
    stderr_lines,     \* lines written to stderr
    inflight,         \* requests whose handler has started and not returned
    read_log,         \* history: every line read, in order
    handled,          \* history: requests whose handler ran to its end, in order
    \* ---- writers sharing one lesson store -------------------------------
    writer,           \* per writer: position in save_lesson, its arguments, its in-memory list
    persisted,        \* history: every content the persisted store has held
    \* ---- lesson retrieval ------------------------------------------------
    retrieved,        \* the latest get_relevant_lessons call: its arguments and its lines
    \* ---- intent classification -------------------------------------------
    classified,       \* the latest classification: its inputs, how it ended, its kind
    \* ---- one BrowserUseTool instance ---------------------------------------
    lock_holder,      \* the execute call holding BrowserUseTool.lock, or "none"
    browser_context,  \* whether self.browser_context is set
    browser,          \* whether self.browser is set
    context_lost,     \* whether the context self.browser_context holds lost its browser
    contexts_created, \* number of browser contexts created on this instance
    browser_calls,    \* per caller: position in execute, arguments, result
    \* ---- tool calls ----------------------------------------------------------
    tool_log,         \* history: the execute calls made on the tools and how each ended
    \* ---- legacy lesson files ---------------------------------------------------
    migration,        \* history: whether a manager was built on the legacy file, and how
    \* ---- a session driver from start to exit -----------------------------------
    session,          \* the driver, where it is, requests and agent runs so far, what its
                      \* agent holds, how it ended
    \* ---- block_editor on one path ------------------------------------------------
    fs,               \* the file at the path: whether it exists, and its text
    edit              \* history: the latest execute call, its result, the file before it

lessonVars == <<backend, lessons, lessons_file, collection, last_save>>
agentVars  == <<driver, system_prompt, next_step_prompt, messages, state, current_step,
                phase, tool_calls, session_open, run_info, llm_seen, think_calls, tasks_started, files_created, answer>>
serverVars == <<pc, stdin, sys_stdout, stdout_lines, stderr_lines, inflight,
                read_log, handled>>
writerVars == <<writer, persisted>>
browserVars == <<lock_holder, browser_context, browser, context_lost, contexts_created,
                 browser_calls>>
migrateVars == <<migration>>
editorVars == <<fs, edit>>
extVars    == <<migrateVars, session, editorVars>>
auxVars    == <<writerVars, retrieved, classified, browserVars, tool_log, extVars>>
vars == <<lessonVars, agentVars, serverVars, auxVars>>

Range(s) == {s[i] : i \in 1..Len(s)}

LastN_Oldest(s, n) == IF Len(s) <= n THEN s ELSE SubSeq(s, 1, n)

\* s[-n:] of Python
LastN(s, n) == IF Len(s) <= n THEN s ELSE SubSeq(s, Len(s) - n + 1, Len(s))

\* s[:n] of Python
FirstN(s, n) == IF Len(s) <= n THEN s ELSE SubSeq(s, 1, n)

(***************************************************************************)
(* Bounds of the model                                                     *)
(***************************************************************************)
NumContents == 3        \* distinct lesson contents a save may be called with
MaxThinks == 4          \* think calls per session
MaxTasks == 2           \* tasks per session
max_steps == 2          \* the step budget k of a task
MaxLogLen == 3          \* length of the message logs the extraction is applied to
MaxLines == 3           \* input lines the long-lived process is given
NumWriterContents == 2  \* distinct contents the two concurrent writers save
MaxUserLessons == 21    \* USER lessons saved to the collection before a retrieval
MaxOtherLessons == 1    \* ROLE lessons, and GENERAL lessons, saved to the collection
MaxStore == 6           \* lessons of the keyword store before a retrieval
MaxCalls == 2           \* tool calls in one sequence of calls

(***************************************************************************)
(* Lesson store: app/memory/lessons.py, app/memory/vector_lessons.py       *)
(***************************************************************************)
ContentNames == <<"lesson1", "lesson2", "lesson3", "lesson4", "lesson5">>
Contents == {ContentNames[i] : i \in 1..NumContents}
TagLists == {<<>>, <<"t1">>}
Scopes == {"USER", "ROLE", "GENERAL"}

NoFile == [kind |-> "absent", data |-> <<>>]

NoSave == [content |-> "", dup |-> FALSE, failed |-> FALSE, lessons |-> <<>>, file |-> NoFile,
           rows |-> <<>>]

\* LessonManager._load_lessons: no file, or a file that does not parse, is an empty list;
\* a list whose first entry is a string becomes a list of lessons without tags
LoadLessons(f) ==
    CASE f.kind = "list"    -> f.data
      [] f.kind = "strings" -> [i \in 1..Len(f.data) |-> [content |-> f.data[i], tags |-> <<>>]]
      [] OTHER              -> <<>>

\* the duplicate check of LessonManager.save_lesson: some stored lesson has this content
IsDuplicate_NoCheck(ls, content) == FALSE

IsDuplicate(ls, content) == \E i \in 1..Len(ls) : ls[i].content = content

\* the duplicate check of VectorLessonManager.save_lesson:
\* collection.get(where={"content": content}) returns some id
VectorHas(rows, content) == \E i \in 1..Len(rows) : rows[i].content = content

\* open(LESSONS_FILE, 'w') then json.dump(self.lessons, f): the write succeeds, or open
\* raises and the file is left as it was, or the dump stops after the file was truncated
\* (json.dump raises, or the process ends between the truncation and the end of the dump)
WriteOutcomes == {"ok", "open_fails", "dump_fails"}

WriteFile(f, ls, outcome) ==
    CASE outcome = "ok"         -> [kind |-> "list", data |-> ls]
      [] outcome = "open_fails" -> f
      [] outcome = "dump_fails" -> [kind |-> "partial", data |-> <<>>]

\* LessonManager.save_lesson(content, tags)
SaveLesson(content, tags, outcome) ==
    /\ backend = "json"
    /\ last_save' = [content |-> content, dup |-> IsDuplicate(lessons, content),
                     failed |-> ~IsDuplicate(lessons, content) /\ outcome # "ok",
                     lessons |-> lessons, file |-> lessons_file, rows |-> collection]
    /\ IF IsDuplicate(lessons, content)
       THEN UNCHANGED <<lessons, lessons_file>>
       ELSE /\ lessons' = Append(lessons, [content |-> content, tags |-> tags])
            /\ lessons_file' = WriteFile(lessons_file, lessons', outcome)
    /\ UNCHANGED <<backend, collection>>

\* LessonManager(): a new process constructs the manager and loads the file
NewLessonManager ==
    /\ backend = "json"
    /\ lessons' = LoadLessons(lessons_file)
    /\ last_save' = NoSave
    /\ UNCHANGED <<backend, lessons_file, collection>>

\* scope.upper()
ScopeUpper(scope) ==
    CASE scope = "user" -> "USER" [] scope = "role" -> "ROLE"
      [] scope = "general" -> "GENERAL" [] OTHER -> scope

\* VectorLessonManager.save_lesson(content, scope, role, tags); add_ok = FALSE when
\* collection.add raises
VectorSaveLesson(content, scope, role, tags, add_ok) ==
    /\ backend = "vector"
    /\ last_save' = [content |-> content, dup |-> VectorHas(collection, content),
                     failed |-> ~VectorHas(collection, content) /\ ~add_ok,
                     lessons |-> lessons, file |-> lessons_file, rows |-> collection]
    /\ IF VectorHas(collection, content) \/ ~add_ok
       THEN UNCHANGED collection
       ELSE collection' = Append(collection,
                [content |-> content, scope |-> ScopeUpper(scope), role |-> role,
                 tags |-> tags])
    /\ UNCHANGED <<backend, lessons, lessons_file>>

LessonInit ==
    /\ lessons = <<>>
    /\ lessons_file = NoFile
    /\ collection = <<>>
    /\ last_save = NoSave

(***************************************************************************)
(* Messages and the final-answer extraction of the session drivers:        *)
(* main.py, server/persistent_wrapper.py, server/vazal_wrapper.py          *)
(***************************************************************************)
Msg(role, content, calls) == [role |-> role, content |-> content, tool_calls |-> calls]

\* a tool call: the tool's name and its JSON arguments; args.ok = FALSE when
\* json.loads(tc.function.arguments) raises or gives no object
Call(name, ok, output) == [name |-> name, args |-> [ok |-> ok, output |-> output]]

\* args.get("output") when it is truthy, else the empty text
TerminateOutput(tc) ==
    IF tc.name = "terminate" /\ tc.args.ok THEN tc.args.output ELSE <<>>

\* main.py: no break in the loop over tool calls, the last terminate output wins
RECURSIVE LastTerminateOutput(_)
LastTerminateOutput(calls) ==
    IF calls = <<>> THEN <<>>
    ELSE IF TerminateOutput(calls[Len(calls)]) # <<>>
         THEN TerminateOutput(calls[Len(calls)])
         ELSE LastTerminateOutput(SubSeq(calls, 1, Len(calls) - 1))

\* the wrappers: break at the first terminate call that has an output
RECURSIVE FirstTerminateOutput(_)
FirstTerminateOutput(calls) ==
    IF calls = <<>> THEN <<>>
    ELSE IF TerminateOutput(Head(calls)) # <<>>
         THEN TerminateOutput(Head(calls))
         ELSE FirstTerminateOutput(Tail(calls))

MainDefault == <<"Task Completed.">>
WrapperDefault == <<"Task Completed.">>
PersistentDefault == <<"Task completed.">>
ToolOutputLimit == 2000

\* main.py, first loop: newest assistant message first; terminate output, then content
RECURSIVE MainScan(_, _)
MainScan(msgs, i) ==
    IF i = 0 THEN MainDefault
    ELSE IF msgs[i].role # "assistant" THEN MainScan(msgs, i - 1)
    ELSE IF LastTerminateOutput(msgs[i].tool_calls) # <<>>
         THEN LastTerminateOutput(msgs[i].tool_calls)
    ELSE IF msgs[i].content # <<>> THEN msgs[i].content
    ELSE MainScan(msgs, i - 1)

\* main.py, fallback loop: the newest tool message that has content
RECURSIVE MainToolFallback(_, _)
MainToolFallback(msgs, i) ==
    IF i = 0 THEN MainDefault
    ELSE IF msgs[i].role = "tool" /\ msgs[i].content # <<>>
         THEN <<"Task Completed. Last Tool Output:">>
                  \o FirstN(msgs[i].content, ToolOutputLimit) \o <<"...">>
    ELSE MainToolFallback(msgs, i - 1)

MainExtract(msgs) ==
    IF MainScan(msgs, Len(msgs)) = MainDefault
    THEN MainToolFallback(msgs, Len(msgs))
    ELSE MainScan(msgs, Len(msgs))

\* vazal_wrapper.execute_task: the break after a terminate output leaves only the
\* loop over tool calls, so the scan goes on to older messages
RECURSIVE WrapperScan(_, _, _)
WrapperScan(msgs, i, final) ==
    IF i = 0 THEN final
    ELSE IF msgs[i].role # "assistant" THEN WrapperScan(msgs, i - 1, final)
    ELSE LET out == FirstTerminateOutput(msgs[i].tool_calls)
             f1 == IF out # <<>> THEN out ELSE final
         IN IF msgs[i].content # <<>> /\ f1 = WrapperDefault
            THEN msgs[i].content
            ELSE WrapperScan(msgs, i - 1, f1)

WrapperExtract(msgs) == WrapperScan(msgs, Len(msgs), WrapperDefault)

\* persistent_wrapper.execute_task, the loop over the messages
RECURSIVE PersistentScan(_, _, _)
PersistentScan(msgs, i, final) ==
    IF i = 0 THEN final
    ELSE IF msgs[i].role # "assistant" THEN PersistentScan(msgs, i - 1, final)
    ELSE LET out == FirstTerminateOutput(msgs[i].tool_calls)
             f1 == IF out # <<>> THEN out ELSE final
         IN IF f1 = <<>> /\ msgs[i].content # <<>>
            THEN msgs[i].content
            ELSE PersistentScan(msgs, i - 1, f1)

\* str.lower() on the tokens a text is made of
Lower(tok) == IF tok \in {"File", "FILE"} THEN "file" ELSE tok

MentionsFile(text) == \E i \in 1..Len(text) : Lower(text[i]) = "file"

\* persistent_wrapper.execute_task, "Build rich response"
PersistentDefaultText_Empty(files) == <<>>

PersistentDefaultText(files) ==
    IF files THEN <<"Task completed! Created", "file(s):", "names">> ELSE PersistentDefault

PersistentExtract(msgs, files) ==
    LET final == PersistentScan(msgs, Len(msgs), <<>>)
    IN IF final = <<>> THEN PersistentDefaultText(files)
       ELSE IF files /\ ~MentionsFile(final)
            THEN final \o <<"Output files:", "names">>
            ELSE final

Drivers == {"main", "persistent_wrapper", "vazal_wrapper"}

ExtractAnswer(d, msgs, files) ==
    CASE d = "main"               -> MainExtract(msgs)
      [] d = "persistent_wrapper" -> PersistentExtract(msgs, files)
      [] d = "vazal_wrapper"      -> WrapperExtract(msgs)

NoAnswer == [set |-> FALSE, text |-> <<>>, log |-> <<>>]

(***************************************************************************)
(* The agent: app/agent/vazal.py, app/agent/manus.py                       *)
(***************************************************************************)
BaseSystemPrompt == <<"SYSTEM_PROMPT">>
BaseNextStepPrompt == <<"NEXT_STEP_PROMPT">>
\* what BrowserContextHelper.format_next_step_prompt() returns
BrowserNextStepPrompt == <<"BROWSER_NEXT_STEP_PROMPT">>

\* Vazal.available_tools: the tool names of the ToolCollection (app.agent.manus, which
\* main.py imports, registers fewer tools than app.agent.vazal)
AvailableTools_NoTerminate(d) ==
    {"python_execute", "fast_search", "browser_use", "block_editor", "str_replace_editor",
     "ask_human"}

AvailableTools(d) ==
    IF d = "main"
    THEN {"python_execute", "fast_search", "browser_use", "block_editor",
          "str_replace_editor", "ask_human", "terminate"}
    ELSE {"python_execute", "fast_search", "browser_use", "block_editor", "ppt_creator",
          "generate_image", "image_search", "str_replace_editor", "ask_human", "terminate"}

RecentLimit == 5

\* LessonManager.get_relevant_lessons() with no query: the 5 most recent lessons
RecentLessons(ls) ==
    IF ls = <<>> THEN <<>>
    ELSE <<"RECENT LESSONS:">>
             \o [i \in 1..Len(LastN(ls, RecentLimit)) |-> LastN(ls, RecentLimit)[i].content]

RecentWindow == 3

\* Vazal.think: a browser_use tool call is among the last 3 messages
BrowserInUse(msgs) ==
    \E i \in 1..Len(LastN(msgs, RecentWindow)) :
        \E j \in 1..Len(LastN(msgs, RecentWindow)[i].tool_calls) :
            LastN(msgs, RecentWindow)[i].tool_calls[j].name = "browser_use"

\* The replies of the LLM to a think step: content and proposed tool calls
Replies ==
    { [content |-> <<"a1">>, calls |-> <<>>],
      [content |-> <<>>,     calls |-> <<Call("fast_search", TRUE, <<>>)>>],
      [content |-> <<>>,     calls |-> <<Call("browser_use", TRUE, <<>>)>>],
      [content |-> <<"a1">>, calls |-> <<Call("terminate", TRUE, <<>>)>>],
      [content |-> <<>>,     calls |-> <<Call("terminate", TRUE, <<"o1">>)>>] }

ProposesTerminate(calls) == \E j \in 1..Len(calls) : calls[j].name = "terminate"

NoRun == [outcome |-> "none", stop |-> "none", terminate_at |-> 0]

NoThink == [called |-> FALSE, pre_system |-> <<>>, pre_next |-> <<>>, reached |-> FALSE,
            system |-> <<>>, next |-> <<>>, lessons |-> <<>>, browser |-> FALSE]

\* the session before any task
AgentIdle ==
    /\ system_prompt = BaseSystemPrompt
    /\ next_step_prompt = BaseNextStepPrompt
    /\ messages = <<>>
    /\ state = "IDLE"
    /\ current_step = 0
    /\ phase = "think"
    /\ tool_calls = <<>>
    /\ session_open = TRUE
    /\ run_info = NoRun
    /\ llm_seen = NoThink
    /\ think_calls = 0
    /\ tasks_started = 0
    /\ files_created = FALSE
    /\ answer = NoAnswer

\* the driver hands a task to agent.run: the request enters the message log and the
\* step counter is reset
RunStart ==
    /\ session_open
    /\ state # "RUNNING"
    /\ run_info.outcome \in {"none", "answered", "raised"}
    /\ tasks_started < MaxTasks
    /\ messages' = Append(messages, Msg("user", <<"prompt">>, <<>>))
    /\ state' = "RUNNING"
    /\ current_step' = 0
    /\ phase' = "think"
    /\ tool_calls' = <<>>
    /\ run_info' = [outcome |-> "running", stop |-> "none", terminate_at |-> 0]
    /\ tasks_started' = tasks_started + 1
    /\ answer' = NoAnswer
    /\ UNCHANGED <<driver, system_prompt, next_step_prompt, session_open, llm_seen,
                   think_calls, files_created>>

\* an exception leaves think and agent.run: main.py and vazal_wrapper.py end the
\* session, persistent_wrapper.py reports the error and keeps the agent
RunRaises ==
    /\ state' = "IDLE"
    /\ phase' = "think"
    /\ run_info' = [run_info EXCEPT !.outcome = "raised"]
    /\ session_open' = (driver = "persistent_wrapper")
    /\ UNCHANGED <<messages, tool_calls>>

ThinkOutcomes == {"ok", "lessons_raise", "format_raise", "llm_raise"}

\* one think step of the running task: Vazal.think
Think(outcome, reply) ==
    LET lessons_text == RecentLessons(lessons)
        original_system_prompt == system_prompt
        original_prompt == next_step_prompt
        browser_in_use == BrowserInUse(messages)
        injected == original_system_prompt \o lessons_text
        given_next == IF browser_in_use THEN BrowserNextStepPrompt ELSE original_prompt
        pre == [NoThink EXCEPT !.called = TRUE, !.pre_system = original_system_prompt,
                               !.pre_next = original_prompt]
        seen == [pre EXCEPT !.reached = TRUE, !.system = injected, !.next = given_next,
                            !.lessons = lessons_text, !.browser = browser_in_use]
    IN
    /\ state = "RUNNING"
    /\ phase = "think"
    /\ current_step < max_steps
    /\ think_calls < MaxThinks
    /\ think_calls' = think_calls + 1
    /\ current_step' = current_step + 1
    /\ CASE outcome = "lessons_raise" ->
             \* get_relevant_lessons raises before any prompt is touched
             /\ llm_seen' = pre
             /\ UNCHANGED <<system_prompt, next_step_prompt>>
             /\ RunRaises
        [] outcome = "format_raise" ->
             \* format_next_step_prompt raises: the lessons are already injected
             /\ browser_in_use
             /\ llm_seen' = pre
             /\ system_prompt' = injected
             /\ UNCHANGED next_step_prompt
             /\ RunRaises
        [] outcome = "llm_raise" ->
             \* super().think() raises: the restore lines are not reached
             /\ llm_seen' = seen
             /\ system_prompt' = injected
             /\ next_step_prompt' = given_next
             /\ RunRaises
        [] outcome = "ok" ->
             /\ llm_seen' = seen
             /\ system_prompt' = original_system_prompt
             /\ next_step_prompt' = original_prompt
             /\ messages' = Append(messages, Msg("assistant", reply.content, reply.calls))
             /\ tool_calls' = reply.calls
             /\ IF reply.calls = <<>>
                THEN \* a content-only reply is the final answer
                     /\ state' = "TERMINATED"
                     /\ run_info' = [run_info EXCEPT !.outcome = "returned",
                                                     !.stop = "final_answer"]
                     /\ UNCHANGED phase
                ELSE /\ phase' = "act"
                     /\ run_info' = [run_info EXCEPT !.terminate_at =
                            IF ProposesTerminate(reply.calls) THEN current_step + 1 ELSE @]
                     /\ UNCHANGED state
             /\ UNCHANGED session_open
    /\ UNCHANGED <<driver, tasks_started, files_created, answer>>

\* the tool message a dispatched call is answered with
ToolMessage(d, call) ==
    IF call.name \notin AvailableTools(d) THEN Msg("tool", <<"Error: Unknown tool">>, <<>>)
    ELSE IF call.name = "terminate" THEN Msg("tool", <<"completed">>, <<>>)
    ELSE Msg("tool", <<"observed">>, <<>>)

\* the terminate tool was dispatched
Terminates(d, calls) == ProposesTerminate(calls) /\ "terminate" \in AvailableTools(d)

\* one act step: every proposed call is dispatched in order, each result appended
Act ==
    /\ state = "RUNNING"
    /\ phase = "act"
    /\ messages' = messages \o [j \in 1..Len(tool_calls) |-> ToolMessage(driver, tool_calls[j])]
    /\ phase' = "think"
    /\ IF Terminates(driver, tool_calls)
       THEN /\ state' = "TERMINATED"
            /\ run_info' = [run_info EXCEPT !.outcome = "returned", !.stop = "terminate"]
       ELSE IF current_step >= max_steps
       THEN /\ state' = "TERMINATED"
            /\ run_info' = [run_info EXCEPT !.outcome = "returned", !.stop = "budget"]
       ELSE UNCHANGED <<state, run_info>>
    /\ UNCHANGED <<driver, system_prompt, next_step_prompt, current_step, tool_calls,
                   session_open, llm_seen, think_calls, tasks_started, files_created, answer>>

\* after agent.run returned the driver extracts the final answer; persistent_wrapper
\* then resets the message log, vazal_wrapper ends the process
DriverFinish(files) ==
    /\ run_info.outcome = "returned"
    /\ files_created' = (files /\ driver = "persistent_wrapper")
    /\ answer' = [set |-> TRUE, text |-> ExtractAnswer(driver, messages, files_created'),
                  log |-> messages]
    /\ messages' = IF driver = "persistent_wrapper" THEN <<>> ELSE messages
    /\ session_open' = (driver # "vazal_wrapper")
    /\ run_info' = [run_info EXCEPT !.outcome = "answered"]
    /\ UNCHANGED <<driver, system_prompt, next_step_prompt, state, current_step, phase,
                   tool_calls, llm_seen, think_calls, tasks_started>>

(***************************************************************************)
(* The long-lived processes (filled in below) are idle in the other        *)
(* specifications                                                          *)
(***************************************************************************)
ServerIdle ==
    /\ pc = "off"
    /\ stdin = <<>>
    /\ sys_stdout = "stdout"
    /\ stdout_lines = <<>>
    /\ stderr_lines = <<>>
    /\ inflight = {}
    /\ read_log = <<>>
    /\ handled = <<>>

(***************************************************************************)
(* The components of the later specifications are idle in the others       *)
(***************************************************************************)
WriterIds == {"w1", "w2"}

\* a writer outside save_lesson, holding the in-memory list mem
WriterAt(mem) == [pc |-> "idle", content |-> "", tags |-> <<>>, scope |-> "GENERAL",
                  found |-> FALSE, mem |-> mem, last |-> "", result |-> "none"]

WritersIdle ==
    /\ writer = [w \in WriterIds |-> WriterAt(<<>>)]
    /\ persisted = {}

\* no get_relevant_lessons call yet
NoRetrieval == [done |-> FALSE, query |-> {}, role |-> "none", lines |-> <<>>]

\* no classification yet
NoClassification == [done |-> FALSE, by |-> "none", prompt |-> <<>>, reply |-> "none",
                     outcome |-> "none", kind |-> "none"]

Callers == {"c1", "c2"}

\* a caller outside execute
NoCall == [pc |-> "idle", action |-> "none", given |-> {}, result |-> "none",
           acted |-> FALSE]

BrowserIdle ==
    /\ lock_holder = "none"
    /\ browser_context = FALSE
    /\ browser = FALSE
    /\ context_lost = FALSE
    /\ contexts_created = 0
    /\ browser_calls = [c \in Callers |-> NoCall]

NoMigration == [done |-> FALSE, fail_at |-> 0, file |-> NoFile]

MigrateIdle == migration = NoMigration

NoSession == [driver |-> "none", pc |-> "serving", requests |-> 0, runs |-> 0,
              browser_open |-> FALSE, cleanups |-> 0, ended_by |-> "none"]

NoFileAtPath == [exists |-> FALSE, text |-> <<>>]

NoEdit == [done |-> FALSE, command |-> "none", start_line |-> <<>>, end_line |-> <<>>,
           content |-> <<>>, io |-> "ok", result |-> "none", before |-> NoFileAtPath]

EditorIdle ==
    /\ fs = NoFileAtPath
    /\ edit = NoEdit

ExtIdle ==
    /\ MigrateIdle
    /\ session = NoSession
    /\ EditorIdle

AuxIdle ==
    /\ WritersIdle
    /\ retrieved = NoRetrieval
    /\ classified = NoClassification
    /\ BrowserIdle
    /\ tool_log = <<>>
    /\ ExtIdle

(***************************************************************************)
(* SpecLessons: save_lesson calls on a lesson store, of either manager     *)
(***************************************************************************)
InitLessons ==
    /\ backend \in {"json", "vector"}
    /\ LessonInit
    /\ driver = "none"
    /\ AgentIdle
    /\ ServerIdle
    /\ AuxIdle

LessonsSave ==
    /\ \E c \in Contents, t \in TagLists, o \in WriteOutcomes : SaveLesson(c, t, o)
    /\ UNCHANGED <<agentVars, serverVars, auxVars>>

LessonsReload ==
    /\ NewLessonManager
    /\ UNCHANGED <<agentVars, serverVars, auxVars>>

LessonsVectorSave ==
    /\ \E c \in Contents, sc \in Scopes, ok \in BOOLEAN :
          VectorSaveLesson(c, sc, IF sc = "ROLE" THEN "dev" ELSE "none", <<>>, ok)
    /\ UNCHANGED <<agentVars, serverVars, auxVars>>

NextLessons == LessonsSave \/ LessonsReload \/ LessonsVectorSave

SpecLessons == InitLessons /\ [][NextLessons]_vars

(***************************************************************************)
(* SpecExtract: each driver's extraction applied to every bounded log      *)
(***************************************************************************)
LogContents == {<<>>, <<"a1">>}

LogCalls ==
    { <<>>,
      <<Call("fast_search", TRUE, <<>>)>>,
      <<Call("terminate", TRUE, <<>>)>>,
      <<Call("terminate", TRUE, <<"o1">>)>>,
      <<Call("terminate", FALSE, <<>>), Call("terminate", TRUE, <<"o2">>)>> }

LogMessages ==
    {Msg("user", <<"prompt">>, <<>>), Msg("tool", <<"observed">>, <<>>)}
        \cup {Msg("assistant", c, tc) : c \in LogContents, tc \in LogCalls}

Logs == UNION {[1..n -> LogMessages] : n \in 0..MaxLogLen}

InitExtract ==
    /\ backend = "json"
    /\ LessonInit
    /\ driver = "none"
    /\ system_prompt = BaseSystemPrompt
    /\ next_step_prompt = BaseNextStepPrompt
    /\ messages \in Logs
    /\ state = "TERMINATED"
    /\ current_step = 0
    /\ phase = "think"
    /\ tool_calls = <<>>
    /\ session_open = TRUE
    /\ run_info = [NoRun EXCEPT !.outcome = "returned"]
    /\ llm_seen = NoThink
    /\ think_calls = 0
    /\ tasks_started = 1
    /\ files_created = FALSE
    /\ answer = NoAnswer
    /\ ServerIdle
    /\ AuxIdle

Extract ==
    /\ driver = "none"
    /\ \E d \in Drivers, files \in BOOLEAN :
          /\ driver' = d
          /\ files_created' = (files /\ d = "persistent_wrapper")
          /\ answer' = [set |-> TRUE, text |-> ExtractAnswer(d, messages, files_created'),
                        log |-> messages]
          /\ messages' = IF d = "persistent_wrapper" THEN <<>> ELSE messages
          /\ session_open' = (d # "vazal_wrapper")
          /\ run_info' = [run_info EXCEPT !.outcome = "answered"]
    /\ UNCHANGED <<system_prompt, next_step_prompt, state, current_step, phase, tool_calls,
                   llm_seen, think_calls, tasks_started>>
    /\ UNCHANGED <<lessonVars, serverVars, auxVars>>

NextExtract == Extract

SpecExtract == InitExtract /\ [][NextExtract]_vars

(***************************************************************************)
(* SpecAgent: one session of one driver: tasks, think steps, act steps     *)
(***************************************************************************)
LoadedStores == {<<>>, <<[content |-> ContentNames[1], tags |-> <<>>]>>}

InitAgent ==
    /\ backend = "json"
    /\ lessons \in LoadedStores
    /\ lessons_file = IF lessons = <<>> THEN NoFile ELSE [kind |-> "list", data |-> lessons]
    /\ collection = <<>>
    /\ last_save = NoSave
    /\ driver \in Drivers
    /\ AgentIdle
    /\ ServerIdle
    /\ AuxIdle

AgentRunStart == RunStart /\ UNCHANGED <<lessonVars, serverVars, auxVars>>

AgentThink ==
    /\ \E o \in ThinkOutcomes, r \in Replies : Think(o, r)
    /\ UNCHANGED <<lessonVars, serverVars, auxVars>>

AgentAct == Act /\ UNCHANGED <<lessonVars, serverVars, auxVars>>

AgentDriverFinish ==
    /\ \E files \in BOOLEAN : DriverFinish(files)
    /\ UNCHANGED <<lessonVars, serverVars, auxVars>>

\* main.py, suggest_and_save_lesson: after the answer the user may confirm a lesson
AgentSaveLesson ==
    /\ driver = "main"
    /\ run_info.outcome = "answered"
    /\ \E c \in {ContentNames[1], ContentNames[2]} : SaveLesson(c, <<>>, "ok")
    /\ UNCHANGED <<agentVars, serverVars, auxVars>>

NextAgent ==
    AgentRunStart \/ AgentThink \/ AgentAct \/ AgentDriverFinish \/ AgentSaveLesson

SpecAgent == InitAgent /\ [][NextAgent]_vars

(***************************************************************************)
(* The long-lived processes: server/persistent_wrapper.py (JSON lines with *)
(* requestId) and app/agent/persistent_mode.py                             *)
(***************************************************************************)
\* the shapes of an input line; a request line is a JSON object
LineShapes ==
    { [kind |-> "blank",      mode |-> "",         prompt |-> FALSE],
      [kind |-> "bad_json",   mode |-> "",         prompt |-> FALSE],
      [kind |-> "not_object", mode |-> "",         prompt |-> FALSE],
      [kind |-> "request",    mode |-> "classify", prompt |-> TRUE],
      [kind |-> "request",    mode |-> "plan",     prompt |-> TRUE],
      [kind |-> "request",    mode |-> "execute",  prompt |-> TRUE],
      [kind |-> "request",    mode |-> "execute",  prompt |-> FALSE],
      [kind |-> "request",    mode |-> "other",    prompt |-> TRUE] }

\* the requestId of the i-th line is i
Inputs ==
    UNION { { [i \in 1..n |-> [kind |-> f[i].kind, mode |-> f[i].mode,
                                prompt |-> f[i].prompt, id |-> i]] :
              f \in [1..n -> LineShapes] } : n \in 0..MaxLines }

ServerDrivers == {"persistent_wrapper", "persistent_mode"}

Line(type, id) == [type |-> type, id |-> id]

\* a write: the stream it goes to and the line
W(to, type, id) == [to |-> to, line |-> Line(type, id)]

RECURSIVE WrittenTo(_, _)
WrittenTo(writes, stream) ==
    IF writes = <<>> THEN <<>>
    ELSE IF Head(writes).to = stream
         THEN <<Head(writes).line>> \o WrittenTo(Tail(writes), stream)
         ELSE WrittenTo(Tail(writes), stream)

Emit(writes) ==
    /\ stdout_lines' = stdout_lines \o WrittenTo(writes, "stdout")
    /\ stderr_lines' = stderr_lines \o WrittenTo(writes, "stderr")

\* persistent_wrapper.main: await handle_request(data), the loop reads the next line
\* only when the handler has returned
AwaitsHandler_FireAndForget == FALSE

AwaitsHandler == TRUE

\* where the main loop goes after a line it could not use: the except clauses of the
\* loop body report on stderr and the loop goes on
AfterLineError_Break == "exited"

AfterLineError == "read"

\* the line is handed to a handler: persistent_wrapper handles every JSON object,
\* persistent_mode every JSON object that has a prompt
NeedsHandler(d, line) ==
    /\ line.kind = "request"
    /\ d = "persistent_mode" => line.prompt

\* one iteration of the main loop up to the call of the handler
ServerReadLine ==
    /\ pc = "read"
    /\ IF stdin = <<>>
       THEN \* readline() returns nothing at end of input: break
            /\ pc' = "exited"
            /\ UNCHANGED <<stdin, read_log, inflight, stdout_lines, stderr_lines>>
       ELSE LET line == Head(stdin) IN
            /\ stdin' = Tail(stdin)
            /\ read_log' = Append(read_log, line)
            /\ CASE line.kind = "blank" ->
                      UNCHANGED <<pc, inflight, stdout_lines, stderr_lines>>
                 [] line.kind = "bad_json" ->
                      \* json.JSONDecodeError
                      /\ pc' = AfterLineError
                      /\ Emit(<<W("stderr", "invalid_json", line.id)>>)
                      /\ UNCHANGED inflight
                 [] line.kind = "not_object" ->
                      \* data.get raises AttributeError, caught by except Exception
                      /\ pc' = AfterLineError
                      /\ Emit(<<W("stderr", "log_error", line.id)>>)
                      /\ UNCHANGED inflight
                 [] line.kind = "request" /\ ~NeedsHandler(driver, line) ->
                      \* persistent_mode: "No prompt provided", continue
                      /\ Emit(<<W("stderr", "no_prompt", line.id)>>)
                      /\ UNCHANGED <<pc, inflight>>
                 [] line.kind = "request" /\ NeedsHandler(driver, line) ->
                      /\ inflight' = inflight \cup {line}
                      /\ pc' = IF driver = "persistent_wrapper" /\ ~AwaitsHandler
                               THEN "read" ELSE "handling"
                      /\ UNCHANGED <<stdout_lines, stderr_lines>>
    /\ UNCHANGED <<sys_stdout, handled, messages>>

\* what agent.run(prompt) adds to the message log: the request, then the messages of
\* the steps it got through
RunAppends ==
    { <<Msg("user", <<"prompt">>, <<>>)>>,
      <<Msg("user", <<"prompt">>, <<>>),
        Msg("assistant", <<>>, <<Call("fast_search", TRUE, <<>>)>>),
        Msg("tool", <<"observed">>, <<>>)>> }

HandlerOutcomes == {"ok", "raise"}

Done(r, outcome, ran) ==
    [id |-> r.id, mode |-> r.mode, outcome |-> outcome, ran |-> ran, log_at_start |-> messages]

\* persistent_wrapper.handle_request with classify_intent, generate_plan, execute_task:
\* outcome = "raise" when the LLM call or agent.run raises
WrapperHandle(r, outcome, appended, files) ==
    CASE r.mode \in {"classify", "plan"} ->
           \* sys.stdout = sys.stderr; await agent.llm.ask(...); sys.stdout = original_stdout
           /\ sys_stdout' = IF outcome = "ok" THEN "stdout" ELSE "stderr"
           /\ Emit(<<W(sys_stdout', IF outcome = "ok" THEN "result" ELSE "error", r.id)>>)
           /\ handled' = Append(handled, Done(r, outcome, FALSE))
           /\ UNCHANGED messages
      [] r.mode = "execute" ->
           \* progress, sys.stdout = sys.stderr, progress, await agent.run(prompt), ...
           /\ sys_stdout' = IF outcome = "ok" THEN "stdout" ELSE "stderr"
           /\ IF outcome = "ok"
              THEN /\ Emit(<<W(sys_stdout, "progress", r.id), W("stderr", "progress", r.id),
                            W("stdout", "progress", r.id), W("stdout", "result", r.id)>>)
                   /\ messages' = <<>>
              ELSE /\ Emit(<<W(sys_stdout, "progress", r.id), W("stderr", "progress", r.id),
                            W("stderr", "error", r.id)>>)
                   /\ messages' = messages \o appended
           /\ handled' = Append(handled, Done(r, outcome, TRUE))
      [] OTHER ->
           \* Unknown mode
           /\ Emit(<<W(sys_stdout, "error", r.id)>>)
           /\ handled' = Append(handled, Done(r, "ok", FALSE))
           /\ UNCHANGED <<sys_stdout, messages>>

\* the body of the persistent_mode loop after the prompt was read: classify with the
\* LLM, answer a chat directly or run the agent, print the answer
ModeHandle(r, outcome, chat, appended) ==
    /\ UNCHANGED sys_stdout
    /\ IF chat
       THEN /\ handled' = Append(handled, Done(r, outcome, FALSE))
            /\ UNCHANGED messages
            /\ IF outcome = "ok"
               THEN Emit(<<W("stdout", "progress", r.id), W("stdout", "progress", r.id),
                          W("stdout", "answer", r.id)>>)
               ELSE Emit(<<W("stdout", "progress", r.id), W("stderr", "error", r.id)>>)
       ELSE /\ handled' = Append(handled, Done(r, outcome, TRUE))
            /\ messages' = messages \o appended
            /\ IF outcome = "ok"
               THEN Emit(<<W("stdout", "progress", r.id), W("stdout", "progress", r.id),
                          W("stdout", "answer", r.id)>>)
               ELSE Emit(<<W("stdout", "progress", r.id), W("stdout", "progress", r.id),
                          W("stderr", "error", r.id)>>)

\* the handler of request r runs to its end
ServerHandle ==
    /\ \E r \in inflight, outcome \in HandlerOutcomes, appended \in RunAppends,
          files \in BOOLEAN, chat \in BOOLEAN :
          /\ IF driver = "persistent_wrapper"
             THEN WrapperHandle(r, outcome, appended, files)
             ELSE ModeHandle(r, outcome, chat, appended)
          /\ inflight' = inflight \ {r}
    /\ pc' = IF pc = "handling" THEN "read" ELSE pc
    /\ UNCHANGED <<stdin, read_log>>

(***************************************************************************)
(* SpecServer: a long-lived process fed a bounded input                    *)
(***************************************************************************)
InitServer ==
    /\ backend = "json"
    /\ LessonInit
    /\ driver \in ServerDrivers
    /\ AgentIdle
    /\ pc = "read"
    /\ stdin \in Inputs
    /\ sys_stdout = "stdout"
    /\ stdout_lines = <<Line("ready", 0)>>
    /\ stderr_lines = <<>>
    /\ inflight = {}
    /\ read_log = <<>>
    /\ handled = <<>>
    /\ AuxIdle

serverFrame == <<auxVars, lessonVars, driver, system_prompt, next_step_prompt, state, current_step,
                 phase, tool_calls, session_open, run_info, llm_seen, think_calls,
                 tasks_started, files_created, answer>>

ReadLine == ServerReadLine /\ UNCHANGED serverFrame

HandleRequest == ServerHandle /\ UNCHANGED serverFrame

NextServer == ReadLine \/ HandleRequest

SpecServer == InitServer /\ [][NextServer]_vars

(***************************************************************************)
(* SpecWriters: two lesson-manager instances sharing one store. Neither    *)
(* save_lesson holds a lock or a transaction between its duplicate check   *)
(* and its insertion, so the steps of two writers interleave freely. A     *)
(* LessonManager checks and appends to its own in-memory list and then     *)
(* rewrites the whole file from it; a VectorLessonManager queries and adds *)
(* to the shared collection.                                               *)
(***************************************************************************)
WriterContents == {ContentNames[i] : i \in 1..NumWriterContents}

\* the lessons of the persisted store: lessons.json as a new manager would load it, or
\* the rows of the collection
StoredLessons == IF backend = "json" THEN LoadLessons(lessons_file) ELSE collection

StoredContents == {StoredLessons[i].content : i \in 1..Len(StoredLessons)}

StoredCount(c) == Cardinality({i \in 1..Len(StoredLessons) : StoredLessons[i].content = c})

\* LessonManager(): a process constructs its manager, loading the file as it is now
WriterLoad(w) ==
    /\ backend = "json"
    /\ writer[w].pc = "idle"
    /\ writer' = [writer EXCEPT ![w] = WriterAt(LoadLessons(lessons_file))]
    /\ UNCHANGED <<lessonVars, persisted>>

\* save_lesson up to the end of its duplicate check
WriterCheck(w, content, tags) ==
    /\ writer[w].pc = "idle"
    /\ writer' = [writer EXCEPT ![w].pc = "checked", ![w].content = content,
                                ![w].tags = tags,
                                ![w].found = IF backend = "json"
                                             THEN IsDuplicate(writer[w].mem, content)
                                             ELSE VectorHas(collection, content)]
    /\ UNCHANGED <<lessonVars, persisted>>

\* the rest of save_lesson: return on a duplicate, else insert
WriterInsert(w, outcome) ==
    LET me == writer[w]
        mem2 == Append(me.mem, [content |-> me.content, tags |-> me.tags])
        row == [content |-> me.content, scope |-> me.scope, role |-> "none",
                tags |-> me.tags]
        back(res, mem) == [me EXCEPT !.pc = "idle", !.last = me.content,
                                     !.result = res, !.mem = mem]
    IN  /\ me.pc = "checked"
        /\ IF me.found
           THEN /\ writer' = [writer EXCEPT ![w] = back("dup", me.mem)]
                /\ UNCHANGED <<lessons_file, collection>>
           ELSE IF backend = "json"
           THEN /\ writer' = [writer EXCEPT ![w] =
                                 back(IF outcome = "ok" THEN "saved" ELSE "raised", mem2)]
                /\ lessons_file' = WriteFile(lessons_file, mem2, outcome)
                /\ UNCHANGED collection
           ELSE /\ writer' = [writer EXCEPT ![w] =
                                 back(IF outcome = "ok" THEN "saved" ELSE "raised", me.mem)]
                /\ collection' = IF outcome = "ok" THEN Append(collection, row)
                                 ELSE collection
                /\ UNCHANGED lessons_file
        /\ persisted' = persisted \cup
              (IF backend = "json"
               THEN {LoadLessons(lessons_file')[i].content :
                        i \in 1..Len(LoadLessons(lessons_file'))}
               ELSE {collection'[i].content : i \in 1..Len(collection')})
        /\ UNCHANGED <<backend, lessons, last_save>>

writersFrame == <<agentVars, serverVars, retrieved, classified, browserVars, tool_log, extVars>>

InitWriters ==
    /\ backend \in {"json", "vector"}
    /\ LessonInit
    /\ driver = "none"
    /\ AgentIdle
    /\ ServerIdle
    /\ AuxIdle

WritersLoad == (\E w \in WriterIds : WriterLoad(w)) /\ UNCHANGED writersFrame

WritersCheck ==
    /\ \E w \in WriterIds, c \in WriterContents : WriterCheck(w, c, <<>>)
    /\ UNCHANGED writersFrame

WritersInsert ==
    /\ \E w \in WriterIds, o \in WriteOutcomes : WriterInsert(w, o)
    /\ UNCHANGED writersFrame

NextWriters == WritersLoad \/ WritersCheck \/ WritersInsert

SpecWriters == InitWriters /\ [][NextWriters]_vars

(***************************************************************************)
(* SpecRetrieve: lessons are saved to a store, then get_relevant_lessons   *)
(* is called with a query and a role. A query is the set of its lowercase  *)
(* words, the empty set for the empty string. In this specification the    *)
(* content of a lesson is its number in saving order (vector store) or a   *)
(* record of that number and the words of its text (keyword store), so     *)
(* that `word in content` is membership.                                   *)
(***************************************************************************)
UserLimit == 20
NResults == 5
TopLimit == 5
FallbackLimit == 3

WordLen == [alpha |-> 5, beta |-> 4, ab |-> 2]
MinWordLen == 3

Queries == {{}, {"alpha"}, {"alpha", "beta"}, {"ab"}}
Roles == {"none", "dev"}

\* a line "- {content}" of the formatted block: its section, the lesson's content and the
\* lesson's position in the store
Lines(section, sel) ==
    [i \in 1..Len(sel) |-> [section |-> section, content |-> sel[i].row.content,
                            pos |-> sel[i].pos]]

Indexed(rows) == [i \in 1..Len(rows) |-> [pos |-> i, row |-> rows[i]]]

\* VectorLessonManager.get_relevant_lessons(query, current_role). collection.get returns
\* the matching rows in storage order, at most `limit` of them; collection.query returns
\* the n_results matching rows nearest to the query text, every matching row when there
\* are no more than n_results (the only case within the bounds of this model)
UserSection_None(all) == <<>>

UserSection(all) == FirstN(SelectSeq(all, LAMBDA x : x.row.scope = "USER"), UserLimit)

GeneralSection_Always(all, q) ==
    FirstN(SelectSeq(all, LAMBDA x : x.row.scope = "GENERAL"), NResults)

GeneralSection(all, q) ==
    IF q # {} THEN FirstN(SelectSeq(all, LAMBDA x : x.row.scope = "GENERAL"), NResults)
    ELSE <<>>

VectorRetrieve(q, role) ==
    LET all == Indexed(collection)
        rl == IF role # "" /\ role # "none"
              THEN FirstN(SelectSeq(all, LAMBDA x : x.row.scope = "ROLE"
                                                     /\ x.row.role = role), NResults)
              ELSE <<>>
    IN  Lines("user", UserSection(all)) \o Lines("role", rl)
        \o Lines("general", GeneralSection(all, q))

\* the score of one lesson: +1 for each query word (of 3 letters or more) found in the
\* content, +2 when it is found in some tag
WordScore_TagsOne(lesson, word) ==
    IF WordLen[word] < MinWordLen THEN 0
    ELSE (IF word \in lesson.content.words THEN 1 ELSE 0)
         + (IF \E k \in 1..Len(lesson.tags) : lesson.tags[k] = word THEN 1 ELSE 0)

WordScore(lesson, word) ==
    IF WordLen[word] < MinWordLen THEN 0
    ELSE (IF word \in lesson.content.words THEN 1 ELSE 0)
         + (IF \E k \in 1..Len(lesson.tags) : lesson.tags[k] = word THEN 2 ELSE 0)

RECURSIVE Score(_, _)
Score(lesson, q) ==
    IF q = {} THEN 0
    ELSE LET w == CHOOSE x \in q : TRUE
         IN  WordScore(lesson, w) + Score(lesson, q \ {w})

\* scored_lessons.sort(key=lambda x: x[0], reverse=True): Python's sort is stable, also
\* with reverse=True, so lessons of equal score keep the order of the list
RECURSIVE SortByScore(_, _)
SortByScore(S, sc) ==
    IF S = {} THEN <<>>
    ELSE LET best == CHOOSE i \in S : \A j \in S : sc[j] < sc[i] \/ (sc[j] = sc[i] /\ i <= j)
         IN  <<best>> \o SortByScore(S \ {best}, sc)

\* LessonManager.get_relevant_lessons(query)
KeywordRetrieve(q) ==
    LET all == Indexed(lessons)
        sc == [i \in 1..Len(lessons) |-> Score(lessons[i], q)]
        order == SortByScore({i \in 1..Len(lessons) : sc[i] > 0}, sc)
        top == FirstN([k \in 1..Len(order) |-> all[order[k]]], TopLimit)
    IN  IF lessons = <<>> THEN <<>>
        ELSE IF q = {} THEN Lines("recent", LastN(all, RecentLimit))
        ELSE IF top # <<>> THEN Lines("relevant", top)
        ELSE Lines("relevant", LastN(all, FallbackLimit))

SaveScopes == {"USER", "user", "ROLE", "GENERAL"}

ScopeCount(sc) == Cardinality({i \in 1..Len(collection) : collection[i].scope = sc})

\* the texts of the keyword lessons: the words of the content, and the tags
LessonTexts == {[words |-> {"alpha"}, tags |-> <<>>],
                [words |-> {"beta"}, tags |-> <<"alpha">>],
                [words |-> {"ab"}, tags |-> <<"ab">>]}

retrieveFrame == <<agentVars, serverVars, writerVars, classified, browserVars, tool_log, extVars>>

InitRetrieve ==
    /\ backend \in {"json", "vector"}
    /\ LessonInit
    /\ driver = "none"
    /\ AgentIdle
    /\ ServerIdle
    /\ AuxIdle

\* save_lesson of a content not saved before, to the collection
RetrieveVectorSave ==
    /\ \E sc \in SaveScopes :
          /\ ScopeCount(ScopeUpper(sc)) <
                (IF ScopeUpper(sc) = "USER" THEN MaxUserLessons ELSE MaxOtherLessons)
          /\ VectorSaveLesson(Len(collection) + 1, sc,
                              IF ScopeUpper(sc) = "ROLE" THEN "dev" ELSE "none", <<>>, TRUE)
    /\ retrieved' = NoRetrieval
    /\ UNCHANGED retrieveFrame

\* save_lesson of a content not saved before, to the keyword store
RetrieveKeywordSave ==
    /\ Len(lessons) < MaxStore
    /\ \E t \in LessonTexts :
          SaveLesson([id |-> Len(lessons) + 1, words |-> t.words], t.tags, "ok")
    /\ retrieved' = NoRetrieval
    /\ UNCHANGED retrieveFrame

\* get_relevant_lessons(query, current_role)
RetrieveQuery ==
    /\ ~retrieved.done
    /\ \E q \in Queries, role \in Roles :
          retrieved' = [done |-> TRUE, query |-> q, role |-> role,
                        lines |-> IF backend = "vector" THEN VectorRetrieve(q, role)
                                  ELSE KeywordRetrieve(q)]
    /\ UNCHANGED <<lessonVars, retrieveFrame>>

NextRetrieve == RetrieveVectorSave \/ RetrieveKeywordSave \/ RetrieveQuery

SpecRetrieve == InitRetrieve /\ [][NextRetrieve]_vars

(***************************************************************************)
(* SpecClassify: the intent classification of each driver, applied to a    *)
(* prompt and to the reply of the classifier's LLM call. A prompt is the   *)
(* sequence of its characters.                                             *)
(***************************************************************************)
\* prompt.upper(), for the letters of the prompts below
UpperChar == [a |-> "A", b |-> "B", c |-> "C", e |-> "E", h |-> "H", i |-> "I",
              l |-> "L", o |-> "O", p |-> "P", r |-> "R", s |-> "S", t |-> "T",
              u |-> "U", y |-> "Y"]

Upper(text) ==
    [k \in 1..Len(text) |-> IF text[k] \in DOMAIN UpperChar THEN UpperChar[text[k]]
                            ELSE text[k]]

\* ['HI', 'HELLO', 'HEY', 'THANKS', 'THANK YOU', 'BYE', 'GOODBYE']
Lexicon == {<<"H", "I">>,
            <<"H", "E", "L", "L", "O">>,
            <<"H", "E", "Y">>,
            <<"T", "H", "A", "N", "K", "S">>,
            <<"T", "H", "A", "N", "K", " ", "Y", "O", "U">>,
            <<"B", "Y", "E">>,
            <<"G", "O", "O", "D", "B", "Y", "E">>}

\* `g in text` of Python strings
IsSubstring(g, text) ==
    \E k \in 0..(Len(text) - Len(g)) : SubSeq(text, k + 1, k + Len(g)) = g

Prompts == {<<"h", "e", "l", "l", "o">>,
            <<"b", "y", "e">>,
            <<"p", "l", "o", "t", " ", "i", "t">>,
            <<"c", "h", "a", "r", "t", " ", "t", "h", "i", "s">>,
            <<"s", "e", "a", "r", "c", "h", " ", "h", "i", "s", "t", "o", "r", "y">>,
            <<"t", "h", "a", "n", "k", " ", "y", "o", "u">>,
            <<>>}

\* the replies of llm.ask to the classifier prompt, by their form:
\*   json_chat, json_task   the JSON object asked for, bare or inside a code fence or text
\*   json_object            a JSON object without a "type" key
\*   json_scalar            valid JSON that is no object (a number, a string, a list)
\*   type_chat, type_task   the "TYPE: ... / RESPONSE: ..." grammar of main.py
\*   text_chat, text        free text, mentioning CHAT or not; no JSON in it
\*   empty                  the empty string
\*   raise                  llm.ask raises
ReplyForms == {"json_chat", "json_task", "json_object", "json_scalar", "type_chat",
               "type_task", "text_chat", "text", "empty", "raise"}

\* json.loads(result) after the code fence and the braces are cut out: the "type" of the
\* value it returns ("none": the value has no such key), or "error" for JSONDecodeError
JsonType(reply) ==
    CASE reply = "json_chat" -> "CHAT"
      [] reply = "json_task" -> "TASK"
      [] reply \in {"json_object", "json_scalar"} -> "none"
      [] OTHER -> "error"

\* "CHAT" in result.upper() and "TASK" not in result.upper()
SaysChatOnly(reply) == reply \in {"type_chat", "text_chat"}

Returned(kind) == [outcome |-> "returned", kind |-> kind]

\* classify_intent of server/persistent_wrapper.py: the LLM call is outside the try; the
\* fallback looks for the lexicon entries as substrings of the upper-cased prompt
ClassifyPersistentWrapper(prompt, reply) ==
    IF reply = "raise" THEN [outcome |-> "raised", kind |-> "none"]
    ELSE IF JsonType(reply) # "error" THEN Returned(JsonType(reply))
    ELSE IF \E g \in Lexicon : IsSubstring(g, Upper(prompt)) THEN Returned("CHAT")
    ELSE Returned("TASK")

\* classify_intent of server/vazal_wrapper.py: the fallback looks at the reply only
ClassifyVazalWrapper(prompt, reply) ==
    IF reply = "raise" THEN [outcome |-> "raised", kind |-> "none"]
    ELSE IF JsonType(reply) # "error" THEN Returned(JsonType(reply))
    ELSE IF SaysChatOnly(reply) THEN Returned("CHAT")
    ELSE Returned("TASK")

\* main.py and persistent_mode.py: CHAT when "TYPE: CHAT" is in the reply, else TASK
ClassifyMain(prompt, reply) ==
    IF reply = "raise" THEN [outcome |-> "raised", kind |-> "none"]
    ELSE IF reply = "type_chat" THEN Returned("CHAT")
    ELSE Returned("TASK")

Classifiers == {"persistent_wrapper", "vazal_wrapper", "main"}

InitClassify ==
    /\ backend = "json"
    /\ LessonInit
    /\ driver = "none"
    /\ AgentIdle
    /\ ServerIdle
    /\ AuxIdle

Classify ==
    /\ \E by \in Classifiers, prompt \in Prompts, reply \in ReplyForms :
          LET res == CASE by = "persistent_wrapper" -> ClassifyPersistentWrapper(prompt, reply)
                       [] by = "vazal_wrapper" -> ClassifyVazalWrapper(prompt, reply)
                       [] by = "main" -> ClassifyMain(prompt, reply)
          IN  classified' = [done |-> TRUE, by |-> by, prompt |-> prompt, reply |-> reply,
                             outcome |-> res.outcome, kind |-> res.kind]
    /\ UNCHANGED <<lessonVars, agentVars, serverVars, writerVars, retrieved, browserVars,
                   tool_log, extVars>>

NextClassify == Classify

SpecClassify == InitClassify /\ [][NextClassify]_vars

(***************************************************************************)
(* SpecBrowser: concurrent execute calls on one BrowserUseTool instance.   *)
(* execute runs under `async with self.lock`; inside, it suspends while    *)
(* the browser context is created and while the browser performs the       *)
(* action, so other browser_calls take steps in between.                           *)
(***************************************************************************)
\* parameters["dependencies"]: the fields each action requires
Dependencies ==
    [go_to_url |-> {"url"}, click_element |-> {"index"}, input_text |-> {"index", "text"},
     switch_tab |-> {"tab_id"}, open_tab |-> {"url"}, scroll_down |-> {"scroll_amount"},
     scroll_up |-> {"scroll_amount"}, scroll_to_text |-> {"text"}, send_keys |-> {"keys"},
     get_dropdown_options |-> {"index"}, select_dropdown_option |-> {"index", "text"},
     go_back |-> {}, web_search |-> {"query"}, wait |-> {"seconds"},
     extract_content |-> {"goal"}, get_state |-> {}]

Actions == DOMAIN Dependencies

\* the fields whose absence the action's branch of execute answers with an error
\* (scroll_down and scroll_up fall back to 500 pixels, extract_content to the raw text);
\* the two dropdown actions have no branch and end in "Unknown action"
Checked(action) ==
    IF action \in {"scroll_down", "scroll_up", "extract_content"} THEN {}
    ELSE Dependencies[action]

HasBranch(action) == action \notin {"get_dropdown_options", "select_dropdown_option"}

\* the branches that operate the browser; the others only build a ToolResult (or sleep)
ActsOnBrowser(action) == action \notin {"switch_tab", "scroll_to_text", "wait"}

\* the browser_calls made: all required fields given, or one of them omitted
CallArgs ==
    UNION {{[action |-> a, given |-> g] :
               g \in {Dependencies[a]} \cup {Dependencies[a] \ {f} : f \in Dependencies[a]}} :
           a \in Actions}

LockFree_Always(holder) == TRUE

\* asyncio.Lock: acquire returns only while the lock is not held
LockFree(holder) == holder = "none"

\* a call of execute(action, ...): it starts by waiting for the lock
BrowserCall(c, args) ==
    /\ browser_calls[c].pc \in {"idle", "done"}
    /\ browser_calls' = [browser_calls EXCEPT ![c] = [pc |-> "wait", action |-> args.action,
                                      given |-> args.given, result |-> "none",
                                      acted |-> FALSE]]
    /\ UNCHANGED <<lock_holder, browser_context, browser, context_lost, contexts_created>>

\* async with self.lock, then _ensure_browser_initialized up to its await
BrowserAcquire(c) ==
    /\ browser_calls[c].pc = "wait"
    /\ LockFree(lock_holder)
    /\ lock_holder' = c
    /\ browser_calls' = [browser_calls EXCEPT ![c].pc = IF browser_context THEN "act" ELSE "creating"]
    /\ UNCHANGED <<browser_context, browser, context_lost, contexts_created>>

\* await self.browser.new_context() returns, or raises: RuntimeError, caught by execute
BrowserCreated(c, ok) ==
    /\ browser_calls[c].pc = "creating"
    /\ IF ok
       THEN /\ browser_context' = TRUE
            /\ browser' = TRUE
            /\ context_lost' = FALSE
            /\ contexts_created' = contexts_created + 1
            /\ browser_calls' = [browser_calls EXCEPT ![c].pc = "act"]
            /\ UNCHANGED lock_holder
       ELSE /\ browser_calls' = [browser_calls EXCEPT ![c].pc = "done", ![c].result = "error"]
            /\ lock_holder' = IF lock_holder = c THEN "none" ELSE lock_holder
            /\ UNCHANGED <<browser_context, browser, context_lost, contexts_created>>

\* how the browser operation of a branch ends: it returns, it raises, or it raises
\* "browser not connected"
ActOutcomes == {"ok", "raises", "not_connected"}

\* the branch of the action, to the return of execute; the except clause of execute
\* unsets self.browser on "browser not connected"
BrowserAct(c, outcome) ==
    LET a == browser_calls[c].action
        acts == HasBranch(a) /\ Checked(a) \subseteq browser_calls[c].given /\ ActsOnBrowser(a)
        res == IF ~HasBranch(a) \/ ~(Checked(a) \subseteq browser_calls[c].given)
               THEN [result |-> "error", acted |-> FALSE]
               ELSE IF ActsOnBrowser(a)
               THEN [result |-> IF outcome = "ok" THEN "output" ELSE "error", acted |-> TRUE]
               ELSE [result |-> "output", acted |-> FALSE]
    IN  /\ browser_calls[c].pc = "act"
        /\ context_lost /\ acts => outcome = "not_connected"
        /\ browser_calls' = [browser_calls EXCEPT ![c].pc = "done", ![c].result = res.result,
                                  ![c].acted = res.acted]
        /\ lock_holder' = IF lock_holder = c THEN "none" ELSE lock_holder
        /\ browser' = IF acts /\ outcome = "not_connected" THEN FALSE ELSE browser
        /\ context_lost' = (context_lost \/ (acts /\ outcome = "not_connected"))
        /\ UNCHANGED <<browser_context, contexts_created>>

browserFrame == <<lessonVars, agentVars, serverVars, writerVars, retrieved, classified,
                  tool_log, extVars>>

InitBrowser ==
    /\ backend = "json"
    /\ LessonInit
    /\ driver = "none"
    /\ AgentIdle
    /\ ServerIdle
    /\ AuxIdle

BrowserCalls ==
    /\ \E c \in Callers, args \in CallArgs : BrowserCall(c, args)
    /\ UNCHANGED browserFrame

BrowserAcquires == (\E c \in Callers : BrowserAcquire(c)) /\ UNCHANGED browserFrame

BrowserCreates ==
    /\ \E c \in Callers, ok \in BOOLEAN : BrowserCreated(c, ok)
    /\ UNCHANGED browserFrame

BrowserActs ==
    /\ \E c \in Callers, outcome \in ActOutcomes : BrowserAct(c, outcome)
    /\ UNCHANGED browserFrame

NextBrowser == BrowserCalls \/ BrowserAcquires \/ BrowserCreates \/ BrowserActs

SpecBrowser == InitBrowser /\ [][NextBrowser]_vars

(***************************************************************************)
(* SpecTools: sequences of execute calls on the tools of app/tool. A call  *)
(* is a tool and a case: its arguments being good or bad in a given way,   *)
(* and which external operation (file system, network, browser) fails.     *)
(* The result is a ToolResult with output ("output"), a ToolResult with    *)
(* error ("error"), a plain string ("string"), or an exception leaving     *)
(* execute ("raised").                                                     *)
(***************************************************************************)
ToolCases ==
    [block_editor   |-> {"read_ok", "edit_ok", "missing_file", "bad_lines",
                         "unknown_command", "create_fails", "read_fails", "write_fails"},
     fast_search    |-> {"ok", "tavily_fails", "ddg_fails"},
     image_search   |-> {"ok", "all_sources_fail"},
     generate_image |-> {"ok", "no_api_key", "api_fails", "download_fails"},
     ppt_creator    |-> {"ok", "rejected", "slides_not_dicts", "template_missing",
                         "save_fails"},
     word_creator   |-> {"ok", "save_fails"},
     browser_use    |-> {"ok", "missing_url", "unknown_action", "init_fails",
                         "browser_fails"}]

Tools == DOMAIN ToolCases

\* BlockEditor.execute: the file is created (insert) before the try, read inside it,
\* and written by _write_file outside any try
BlockEditorExecute(case) ==
    CASE case \in {"missing_file", "read_fails", "bad_lines", "unknown_command"} -> "error"
      [] case \in {"create_fails", "write_fails"} -> "raised"
      [] OTHER -> "output"

\* FastSearch.execute returns strings: the formatted results, or "... Search failed: ..."
\* (a failing Tavily search falls back to DuckDuckGo)
FastSearchExecute(case) == "string"

\* ImageSearch.execute: each source catches its own failure; with no URL from any source
\* it returns ToolResult(output="No images found ...")
ImageSearchExecute(case) == "output"

\* GenerateImage.execute and WordCreator.execute: the whole body is inside one try
\* whose except returns ToolResult(error=...)
WholeBodyTryExecute(case) == IF case = "ok" THEN "output" ELSE "error"

\* PPTCreator.execute: the quality rules read slide.get(...) before the try; the rest is
\* inside it
PPTCreatorExecute(case) ==
    CASE case = "ok" -> "output"
      [] case = "slides_not_dicts" -> "raised"
      [] OTHER -> "error"

\* execute of the tool, by name
ToolExecute(tool, case) ==
    CASE tool = "block_editor" -> BlockEditorExecute(case)
      [] tool = "fast_search" -> FastSearchExecute(case)
      [] tool = "image_search" -> ImageSearchExecute(case)
      [] tool = "ppt_creator" -> PPTCreatorExecute(case)
      [] OTHER -> WholeBodyTryExecute(case)

InitTools ==
    /\ backend = "json"
    /\ LessonInit
    /\ driver = "none"
    /\ AgentIdle
    /\ ServerIdle
    /\ AuxIdle

ToolCall ==
    /\ Len(tool_log) < MaxCalls
    /\ \E tool \in Tools : \E case \in ToolCases[tool] :
          tool_log' = Append(tool_log, [tool |-> tool, case |-> case,
                                        result |-> ToolExecute(tool, case)])
    /\ UNCHANGED <<lessonVars, agentVars, serverVars, writerVars, retrieved, classified,
                   browserVars, extVars>>

NextTools == ToolCall

SpecTools == InitTools /\ [][NextTools]_vars

(***************************************************************************)
(* Properties                                                              *)
(***************************************************************************)

\* C1: after every call of Vazal.think, returning or raising, system_prompt and
\* next_step_prompt equal their values before the call.
C1_PromptsRestored ==
    llm_seen.called =>
        /\ system_prompt = llm_seen.pre_system
        /\ next_step_prompt = llm_seen.pre_next

\* C2: in every think step of a session the LLM is given the session's base system
\* prompt followed by the lesson block retrieved in that step, and the base next-step
\* prompt unless a browser_use call is among the last 3 messages.
C2_PromptsStateless ==
    llm_seen.reached =>
        /\ llm_seen.system = BaseSystemPrompt \o llm_seen.lessons
        /\ llm_seen.next =
              IF llm_seen.browser THEN BrowserNextStepPrompt ELSE BaseNextStepPrompt

\* C3: once think step N of a task has proposed terminate, the task is at step N for
\* good: act step N is pending or the loop has stopped, and no step N+1 is issued.
C3_TerminateStops ==
    run_info.terminate_at # 0 =>
        /\ current_step = run_info.terminate_at
        /\ \/ state = "TERMINATED"
           \/ state = "RUNNING" /\ phase = "act"

C3_Witness ==
    /\ run_info.terminate_at = 1
    /\ run_info.terminate_at < max_steps
    /\ state = "TERMINATED"
    /\ run_info.stop = "terminate"
    /\ messages # <<>>
    /\ messages[Len(messages)].role = "tool"

\* the newest non-empty content of a message of the given role, or the empty text
RECURSIVE LastContent(_, _, _)
LastContent(msgs, i, role) ==
    IF i = 0 THEN <<>>
    ELSE IF msgs[i].role = role /\ msgs[i].content # <<>> THEN msgs[i].content
    ELSE LastContent(msgs, i - 1, role)

\* text c occurs in the answer
Surfaces(ans, c) ==
    /\ c # <<>>
    /\ \E i \in 0..(Len(ans) - Len(c)) : SubSeq(ans, i + 1, i + Len(c)) = c

AvailableContents(log) ==
    {LastContent(log, Len(log), "assistant"), LastContent(log, Len(log), "tool")} \ {<<>>}

\* C4: a task whose LLM never proposes terminate and keeps proposing actions stops
\* after exactly max_steps steps, and the answer the driver returns is the last
\* available assistant or tool content.
C4_StepBudgetAnswer ==
    (answer.set /\ run_info.stop = "budget") =>
        /\ current_step = max_steps
        /\ AvailableContents(answer.log) # {} =>
              \E c \in AvailableContents(answer.log) : Surfaces(answer.text, c)

IsResponse(line) == line.type \in {"result", "error", "answer"}

ResponsesOn(lines, id) == {i \in 1..Len(lines) : IsResponse(lines[i]) /\ lines[i].id = id}

\* C6: every request the persistent wrapper has handled has exactly one result or
\* error line carrying its requestId on stdout.
C6_OneResponsePerRequest ==
    driver = "persistent_wrapper" =>
        \A k \in 1..Len(handled) :
            Cardinality(ResponsesOn(stdout_lines, handled[k].id)) = 1

Responded(id) == ResponsesOn(stdout_lines, id) # {} \/ ResponsesOn(stderr_lines, id) # {}

InOrder(lines) ==
    \A i, j \in 1..Len(lines) :
        (i < j /\ IsResponse(lines[i]) /\ IsResponse(lines[j])) => lines[i].id < lines[j].id

\* C7: requests are handled one at a time in arrival order: at most one handler is
\* running, a request that was read and is not the latest line read has had its
\* response emitted, and the responses on stdout are in the order of the requests.
C7_OneAtATimeInOrder ==
    /\ Cardinality(inflight) <= 1
    /\ \A i \in 1..Len(read_log) :
          NeedsHandler(driver, read_log[i]) =>
              \/ read_log[i] \in inflight /\ i = Len(read_log)
              \/ read_log[i] \notin inflight /\ Responded(read_log[i].id)
    /\ InOrder(stdout_lines)

\* three requests were read and answered on stdout
C7_Witness ==
    /\ Len(handled) >= 3
    /\ \A k \in 1..Len(handled) : ResponsesOn(stdout_lines, handled[k].id) # {}
    /\ pc = "exited"

\* C8: a malformed line or a raising request does not stop the process: it exits
\* only at the end of the input, and between two reads every request read so far has
\* been handled.
C8_KeepsServing ==
    /\ pc = "exited" => stdin = <<>>
    /\ pc \in {"read", "exited"} =>
          \A i \in 1..Len(read_log) :
              NeedsHandler(driver, read_log[i]) =>
                  \E k \in 1..Len(handled) : handled[k].id = read_log[i].id

\* a malformed line and a raising request were followed by a request that was handled
C8_Witness ==
    /\ pc = "exited"
    /\ \E i \in 1..Len(read_log) :
          /\ read_log[i].kind \in {"bad_json", "not_object"}
          /\ \E a, b \in 1..Len(handled) :
                /\ a < b
                /\ handled[a].outcome = "raise"
                /\ handled[b].outcome = "ok"
                /\ read_log[i].id < handled[b].id

NoDuplicateContent(ls) ==
    \A i, j \in 1..Len(ls) : i # j => ls[i].content # ls[j].content

\* C10: after any sequence of saves no two stored lessons share a content, and a save
\* of a content already stored leaves the store as it was.
C10_NoDuplicateLessons ==
    /\ NoDuplicateContent(lessons)
    /\ NoDuplicateContent(LoadLessons(lessons_file))
    /\ NoDuplicateContent(collection)
    /\ last_save.dup =>
          /\ lessons = last_save.lessons
          /\ lessons_file = last_save.file
          /\ collection = last_save.rows

\* a content already stored was saved again, on a store of two lessons or more
C10_Witness ==
    /\ last_save.dup
    /\ Len(lessons) >= 2 \/ Len(collection) >= 2

\* how the latest save_lesson call of writer w ended with content c, without raising
SavedLast(w, c) ==
    /\ writer[w].pc = "idle"
    /\ writer[w].last = c
    /\ writer[w].result \in {"saved", "dup"}

\* C11: when two writers sharing one lesson store have both saved the same content,
\* with their check and insert steps in any interleaving, the store holds exactly one
\* lesson of that content.
C11_WritersSerialized ==
    \A c \in WriterContents :
        (\A w \in WriterIds : SavedLast(w, c)) => StoredCount(c) = 1

\* C12: a lesson that the persisted store has held is still in it after every later
\* save, by the same or by another manager instance sharing the store.
C12_LessonsNeverRemoved == persisted \subseteq StoredContents

LinePositions == {retrieved.lines[k].pos : k \in 1..Len(retrieved.lines)}

UserPositions == {i \in 1..Len(collection) : collection[i].scope = "USER"}

IsGeneralLine(l) == backend = "json" \/ collection[l.pos].scope = "GENERAL"

\* C14 (as stated): with the empty query no lesson of GENERAL scope, legacy unscoped
\* lessons included, is in the retrieval output.
C14_GeneralAbsentOnEmptyQuery ==
    (retrieved.done /\ retrieved.query = {})
        => \A k \in 1..Len(retrieved.lines) : ~IsGeneralLine(retrieved.lines[k])

\* C14 (amended): with the empty query no lesson of GENERAL scope is in the retrieval
\* output of the vector store.
C14_VectorGeneralAbsent ==
    (retrieved.done /\ retrieved.query = {} /\ backend = "vector")
        => \A k \in 1..Len(retrieved.lines) : ~IsGeneralLine(retrieved.lines[k])

C14_Witness ==
    /\ retrieved.done
    /\ retrieved.query = {}
    /\ backend = "vector"
    /\ ScopeCount("GENERAL") > 0
    /\ retrieved.role = "dev"
    /\ Len(retrieved.lines) > 1

\* the score the retrieval gave the lesson at position i of the keyword store
ScoreAt(i) == Score(lessons[i], retrieved.query)

\* C20: in keyword retrieval, of two lessons with the same (positive) score the one
\* saved later comes first in the result, and is the one kept when the top-k limit
\* cuts between them.
C20_TiesMostRecentFirst ==
    (retrieved.done /\ backend = "json") =>
        LET L == retrieved.lines
        IN  /\ \A k, m \in 1..Len(L) :
                  (k < m /\ ScoreAt(L[k].pos) > 0 /\ ScoreAt(L[k].pos) = ScoreAt(L[m].pos))
                      => L[k].pos > L[m].pos
            /\ \A k \in 1..Len(L), i \in 1..Len(lessons) :
                  (i \notin LinePositions /\ ScoreAt(i) > 0 /\ ScoreAt(i) = ScoreAt(L[k].pos))
                      => L[k].pos > i

\* the prompt holds a lexicon entry as a word (or words) of its own
ContainsLexiconWord(prompt) ==
    LET text == Upper(prompt)
    IN  \E g \in Lexicon : \E k \in 0..(Len(text) - Len(g)) :
            /\ SubSeq(text, k + 1, k + Len(g)) = g
            /\ (k = 0 \/ text[k] = " ")
            /\ (k + Len(g) = Len(text) \/ text[k + Len(g) + 1] = " ")

\* C15: for any LLM reply, and also when the LLM call fails, classify returns without
\* raising and the returned kind is CHAT or TASK.
C15_ClassifyNeverRaises ==
    classified.done =>
        /\ classified.outcome = "returned"
        /\ classified.kind \in {"CHAT", "TASK"}

\* the reply follows neither output grammar
Malformed(reply) == reply \in {"text_chat", "text", "empty"}

\* C16: when the classifier's LLM output is malformed the result is CHAT only when the
\* prompt contains a greeting or farewell word, and TASK for every other prompt.
C16_LexiconFallback ==
    (classified.done /\ Malformed(classified.reply)) =>
        /\ classified.outcome = "returned"
        /\ classified.kind = "CHAT" => ContainsLexiconWord(classified.prompt)
        /\ ~ContainsLexiconWord(classified.prompt) => classified.kind = "TASK"

\* the browser_calls inside the critical section of execute
InCriticalSection == {c \in Callers : browser_calls[c].pc \in {"creating", "act"}}

\* C17: on one BrowserUseTool instance at most one execute call is inside the critical
\* section at any time, and concurrent first browser_calls create the browser context only once.
C17_BrowserMutex ==
    /\ Cardinality(InCriticalSection) <= 1
    /\ contexts_created <= 1

C17_Witness ==
    /\ contexts_created = 1
    /\ browser_calls["c1"].pc = "act"
    /\ browser_calls["c1"].action = "go_back"
    /\ browser_calls["c2"].pc = "wait"
    /\ lock_holder = "c1"

\* C19: a call that omits a field its action requires (by the dependencies map) returns
\* a ToolResult error and performs no browser action.
C19_MissingFieldIsError ==
    \A c \in Callers :
        (browser_calls[c].pc = "done" /\ ~(Dependencies[browser_calls[c].action] \subseteq browser_calls[c].given))
            => (browser_calls[c].result = "error" /\ ~browser_calls[c].acted)

\* a failing call: bad arguments, or a failing external resource that no fallback made up
\* for
FailingCase(tool, case) ==
    case \notin {"ok", "read_ok", "edit_ok"} /\ ~(tool = "fast_search" /\ case = "tavily_fails")

\* C18: for every tool and every sequence of calls, a failing call never raises out of
\* execute: it returns a ToolResult whose error is set.
C18_ToolsNeverRaise ==
    \A k \in 1..Len(tool_log) :
        FailingCase(tool_log[k].tool, tool_log[k].case) => tool_log[k].result = "error"

\* the score the claim gives the lesson at position i of the keyword store: 1 for each
\* query word of 3 letters or more in the content, 2 for each one in the tags
ExpectedScore(i) ==
    LET long == {w \in retrieved.query : WordLen[w] >= MinWordLen}
    IN  Cardinality({w \in long : w \in lessons[i].content.words})
        + 2 * Cardinality({w \in long : \E k \in 1..Len(lessons[i].tags) :
                                            lessons[i].tags[k] = w})

Scoring == {i \in 1..Len(lessons) : ExpectedScore(i) > 0}

KeywordQueryDone == retrieved.done /\ backend = "json" /\ retrieved.query # {}

MostRecent(k) == {i \in 1..Len(lessons) : i > Len(lessons) - k}

FallbackCase == KeywordQueryDone /\ lessons # <<>> /\ Scoring = {}

\* C22 (as stated): when no lesson scores above zero, keyword retrieval returns the k
\* most recent lessons, k being the top-k limit of the scored results (5).
C22_FallbackTopK ==
    FallbackCase =>
        /\ LinePositions = MostRecent(TopLimit)
        /\ Len(retrieved.lines) = Cardinality(MostRecent(TopLimit))

\* C22 (amended): when no lesson scores above zero, keyword retrieval returns the 3 most
\* recent lessons (all lessons when fewer than 3 are stored).
C22_FallbackThree ==
    FallbackCase =>
        /\ LinePositions = MostRecent(FallbackLimit)
        /\ Len(retrieved.lines) = Cardinality(MostRecent(FallbackLimit))

C22_Witness ==
    /\ FallbackCase
    /\ retrieved.query = {"ab"}
    /\ Len(lessons) > FallbackLimit
    /\ Len(retrieved.lines) = FallbackLimit
    /\ \E i \in 1..Len(lessons) : "ab" \in lessons[i].content.words

(***************************************************************************)
(* SpecMigrate: a manager is built on a lesson file of an earlier format:  *)
(* a list of strings, or a list of {content, tags} entries                 *)
(***************************************************************************)
MaxLegacy == 3

LegacyTags == {"t1", "user", "power_user", "role:dev"}

LegacyTagLists == {<<>>, <<"t1">>, <<"user">>, <<"role:dev">>, <<"role:dev", "power_user">>,
                   <<"user", "role:dev">>}

\* "role:" in tag
HasRolePrefix(tag) == tag \in {"role:dev"}

\* "user" in tag
HasUser(tag) == tag \in {"user", "power_user"}

\* tag.split("role:")[1]
RoleOfTag(tag) == CASE tag = "role:dev" -> "dev" [] OTHER -> ""

\* the loop of _migrate_old_lessons over the tags of one entry, from (scope, role)
RECURSIVE ScopeOfTags(_, _)
ScopeOfTags_General(tags, acc) == acc

ScopeOfTags(tags, acc) ==
    IF tags = <<>> THEN acc
    ELSE LET tag == Head(tags)
         IN  ScopeOfTags(Tail(tags),
                 IF HasRolePrefix(tag) THEN [scope |-> "ROLE", role |-> RoleOfTag(tag)]
                 ELSE IF HasUser(tag) THEN [scope |-> "USER", role |-> acc.role]
                 ELSE acc)

\* item if isinstance(item, str) else item.get("content"), and the same for the tags
LegacyEntries(f) ==
    CASE f.kind = "strings" -> [i \in 1..Len(f.data) |-> [content |-> f.data[i], tags |-> <<>>]]
      [] f.kind = "list"    -> f.data
      [] OTHER              -> <<>>

\* the row VectorLessonManager.save_lesson adds for (content, scope, role, tags)
VectorRow(content, scope, role, tags) ==
    [content |-> content, scope |-> ScopeUpper(scope), role |-> role, tags |-> tags]

\* _migrate_old_lessons from entry i on: each entry goes through save_lesson, which skips
\* a content the collection holds; when collection.add raises (entry fail_at) the loop is
\* left and the exception is logged
RECURSIVE MigrateFrom(_, _, _, _)
MigrateFrom(entries, i, rows, fail_at) ==
    IF i > Len(entries) THEN rows
    ELSE LET item == entries[i]
             to   == ScopeOfTags(item.tags, [scope |-> "GENERAL", role |-> "none"])
         IN  IF VectorHas(rows, item.content) THEN MigrateFrom(entries, i + 1, rows, fail_at)
             ELSE IF i = fail_at THEN rows
             ELSE MigrateFrom(entries, i + 1,
                      Append(rows, VectorRow(item.content, to.scope, to.role, item.tags)),
                      fail_at)

MigrateOldLessons(f, fail_at) == MigrateFrom(LegacyEntries(f), 1, <<>>, fail_at)

\* VectorLessonManager(): migrates when the collection is empty and the old file exists
NewVectorLessonManager(fail_at) ==
    /\ backend = "vector"
    /\ collection' = IF collection = <<>> /\ lessons_file.kind # "absent"
                     THEN MigrateOldLessons(lessons_file, fail_at)
                     ELSE collection
    /\ UNCHANGED <<backend, lessons, lessons_file, last_save>>

\* sequences over S of length n without a repeated content
DistinctSeqs(S, n) == {q \in [1..n -> S] : \A i, j \in 1..n : q[i] = q[j] => i = j}

LegacyFiles ==
    UNION {   {[kind |-> "strings", data |-> q] : q \in DistinctSeqs(Contents, n)}
         \cup {[kind |-> "list",
                data |-> [i \in 1..n |-> [content |-> q[i], tags |-> t[i]]]] :
                    q \in DistinctSeqs(Contents, n), t \in [1..n -> LegacyTagLists]}
          : n \in 0..(IF MaxLegacy < NumContents THEN MaxLegacy ELSE NumContents)}

migrateFrame == <<agentVars, serverVars, writerVars, retrieved, classified, browserVars,
                  tool_log, session, editorVars>>

InitMigrate ==
    /\ backend \in {"json", "vector"}
    /\ lessons_file \in LegacyFiles
    /\ lessons = <<>>
    /\ collection = <<>>
    /\ last_save = NoSave
    /\ driver = "none"
    /\ AgentIdle
    /\ ServerIdle
    /\ AuxIdle

MigrateKeywordLoad ==
    /\ ~migration.done
    /\ NewLessonManager
    /\ migration' = [done |-> TRUE, fail_at |-> 0, file |-> lessons_file]
    /\ UNCHANGED migrateFrame

MigrateVectorLoad ==
    /\ ~migration.done
    /\ \E fail_at \in 0..Len(LegacyEntries(lessons_file)) :
          /\ NewVectorLessonManager(fail_at)
          /\ migration' = [done |-> TRUE, fail_at |-> fail_at, file |-> lessons_file]
    /\ UNCHANGED migrateFrame

NextMigrate == MigrateKeywordLoad \/ MigrateVectorLoad

SpecMigrate == InitMigrate /\ [][NextMigrate]_vars

(***************************************************************************)
(* SpecSession: one session driver from its start to the end of its        *)
(* process: requests served, requests abandoned, and what runs on the way  *)
(* out.  Whether a task that opened the browser closes it again when       *)
(* ToolCallAgent.run returns is left open (run_releases).                  *)
(***************************************************************************)
MaxRequests == 3

\* main.py without and with --prompt, server/vazal_wrapper.py, server/persistent_wrapper.py,
\* app/agent/persistent_mode.py
SessionDrivers == {"main_interactive", "main_prompt", "vazal_wrapper", "persistent_wrapper",
                   "persistent_mode"}

OneShot == {"main_prompt", "vazal_wrapper"}

\* what can end a request or the process: the input ends, the user interrupts, the
\* request raises, or the driver is done (its one request is served, or the user
\* typed exit)
Events == {"eof", "interrupt", "error", "done"}

\* the events a driver can meet
MeetsEvent(d, event) ==
    CASE d = "main_interactive"                       -> TRUE
      [] d \in {"main_prompt", "vazal_wrapper"}       -> event # "eof"
      [] d \in {"persistent_wrapper", "persistent_mode"} -> event # "done"

\* whether the event ends the driver's process: the long-lived processes report a
\* request that raised and read the next line
ExitsOn(d, event) ==
    ~(d \in {"persistent_wrapper", "persistent_mode"} /\ event = "error")

\* whether the driver awaits agent.cleanup() on its way out
CleansUpOn(d, event) ==
    CASE d = "main_interactive"   -> TRUE
      [] d = "vazal_wrapper"      -> TRUE
      [] d = "main_prompt"        -> FALSE
      [] d = "persistent_wrapper" -> FALSE
      [] d = "persistent_mode"    -> FALSE

\* Vazal.cleanup: the tools release what they hold
AgentCleanup(ses) == [ses EXCEPT !.browser_open = FALSE, !.cleanups = @ + 1]

\* one request served to its end; a task runs the agent, which may open the browser
DriverServe(task, opens, run_releases) ==
    /\ session.pc = "serving"
    /\ session.requests < (IF session.driver \in OneShot THEN 1 ELSE MaxRequests)
    /\ session.driver = "main_prompt" => task
    /\ session' = [session EXCEPT
          !.requests = @ + 1,
          !.runs = IF task THEN @ + 1 ELSE @,
          !.browser_open = IF task THEN (IF run_releases THEN FALSE ELSE @ \/ opens) ELSE @]

\* the driver meets an event, between requests or inside one (in_task: inside a
\* task that has the browser open or not)
DriverAbandon(event, in_task, opens) ==
    /\ session.pc = "serving"
    /\ MeetsEvent(session.driver, event)
    /\ event = "done" =>
          /\ ~in_task
          /\ session.driver \in OneShot => session.requests = 1
    /\ session.driver \in OneShot /\ event # "done" => session.requests = 0
    /\ in_task => session.requests < MaxRequests
    /\ event = "error" => in_task
    /\ event = "eof" => ~in_task
    /\ LET held == [session EXCEPT !.browser_open = @ \/ (in_task /\ opens),
                                   !.requests = IF in_task THEN @ + 1 ELSE @,
                                   !.runs = IF in_task THEN @ + 1 ELSE @]
       IN  session' =
             IF ~ExitsOn(session.driver, event) THEN held
             ELSE LET out == IF CleansUpOn(session.driver, event) THEN AgentCleanup(held)
                             ELSE held
                  IN  [out EXCEPT !.pc = "exited", !.ended_by = event]

sessionFrame == <<lessonVars, agentVars, serverVars, writerVars, retrieved, classified,
                  browserVars, tool_log, migrateVars, editorVars>>

InitSession ==
    /\ backend = "json"
    /\ LessonInit
    /\ driver = "none"
    /\ AgentIdle
    /\ ServerIdle
    /\ WritersIdle
    /\ retrieved = NoRetrieval
    /\ classified = NoClassification
    /\ BrowserIdle
    /\ tool_log = <<>>
    /\ MigrateIdle
    /\ EditorIdle
    /\ \E d \in SessionDrivers : session = [NoSession EXCEPT !.driver = d]

SessionServe ==
    /\ \E task, opens, run_releases \in BOOLEAN : DriverServe(task, opens, run_releases)
    /\ UNCHANGED sessionFrame

SessionAbandon ==
    /\ \E event \in Events : \E in_task, opens \in BOOLEAN : DriverAbandon(event, in_task, opens)
    /\ UNCHANGED sessionFrame

NextSession == SessionServe \/ SessionAbandon

SpecSession == InitSession /\ [][NextSession]_vars

(***************************************************************************)
(* SpecEditor: one block_editor call on a path.  A text is a sequence of   *)
(* tokens, "\n" being the line end; an optional argument is <<>> (None)    *)
(* or <<value>>.                                                           *)
(***************************************************************************)
MaxFileLen == 3
MaxLineNo == 5

NL == "\n"

FileTokens == {"a", "b", NL}

\* the index of the first "\n" of a text, or its length when it has none
LineEnd(text) ==
    LET ends == {k \in 1..Len(text) : text[k] = NL}
    IN  IF ends = {} THEN Len(text) ELSE CHOOSE k \in ends : \A m \in ends : k <= m

\* f.readlines(): the text cut after each "\n"
RECURSIVE ReadLines(_)
ReadLines(text) ==
    IF text = <<>> THEN <<>>
    ELSE <<SubSeq(text, 1, LineEnd(text))>> \o ReadLines(SubSeq(text, LineEnd(text) + 1, Len(text)))

\* a line without its line end
StripNL(line) ==
    IF line # <<>> /\ line[Len(line)] = NL THEN SubSeq(line, 1, Len(line) - 1) ELSE line

\* content.splitlines()
SplitLines(text) == [i \in 1..Len(ReadLines(text)) |-> StripNL(ReadLines(text)[i])]

\* [line + "\n" for line in content.splitlines()]
NewLines(text) == [i \in 1..Len(SplitLines(text)) |-> SplitLines(text)[i] \o <<NL>>]

\* f.writelines(lines): the lines one after the other
RECURSIVE WriteLines(_)
WriteLines(lines) == IF lines = <<>> THEN <<>> ELSE Head(lines) \o WriteLines(Tail(lines))

Min(a, b) == IF a < b THEN a ELSE b

Max(a, b) == IF a < b THEN b ELSE a

\* lines[idx_start:idx_end] = new_lines, for 0 <= idx_start <= len(lines), 0 <= idx_end
SliceAssign(lines, idx_start, idx_end, new_lines) ==
    LET stop == Max(Min(idx_end, Len(lines)), idx_start)
    IN  SubSeq(lines, 1, idx_start) \o new_lines \o SubSeq(lines, stop + 1, Len(lines))

EditorCommands == {"insert", "delete", "replace", "read", "append"}

\* how the file operations of the call end: all succeed, open(path, "r") raises, or
\* open(path, "w") raises
EditorIO == {"ok", "read_fails", "open_w_fails"}

\* BlockEditor.execute(command, path, start_line, end_line, content) on file f:
\* its result and the file afterwards
BlockEditorRun(f, c, io) ==
    IF ~f.exists /\ c.command # "insert" THEN [result |-> "error", fs |-> f]
    ELSE IF ~f.exists /\ io = "open_w_fails" THEN [result |-> "raised", fs |-> f]
    ELSE
    LET here == [exists |-> TRUE, text |-> f.text]
        lines == ReadLines(here.text)
        total_lines == Len(lines)
        written(ls) == IF io = "open_w_fails" THEN [result |-> "raised", fs |-> here]
                       ELSE [result |-> "output", fs |-> [exists |-> TRUE, text |-> WriteLines(ls)]]
    IN  IF io = "read_fails" THEN [result |-> "error", fs |-> here]
        ELSE IF c.command = "read" THEN [result |-> "output", fs |-> here]
        ELSE IF c.start_line = <<>> THEN [result |-> "error", fs |-> here]
        ELSE IF c.start_line[1] < 1 \/ c.start_line[1] > total_lines + 1
             THEN [result |-> "error", fs |-> here]
        ELSE
        LET idx_start == c.start_line[1] - 1
        IN  CASE c.command = "insert" ->
                    IF c.content = <<>> THEN [result |-> "error", fs |-> here]
                    ELSE written(SliceAssign(lines, idx_start, idx_start, NewLines(c.content[1])))
              [] c.command = "delete" ->
                    IF c.end_line = <<>> THEN [result |-> "error", fs |-> here]
                    ELSE IF c.end_line[1] < c.start_line[1] THEN [result |-> "error", fs |-> here]
                    ELSE written(SliceAssign(lines, idx_start, c.end_line[1], <<>>))
              [] c.command = "replace" ->
                    IF c.end_line = <<>> \/ c.content = <<>> THEN [result |-> "error", fs |-> here]
                    ELSE written(SliceAssign(lines, idx_start, c.end_line[1], NewLines(c.content[1])))
              [] OTHER -> [result |-> "error", fs |-> here]

Texts(n) == UNION {[1..k -> FileTokens] : k \in 0..n}

EditorFiles == {NoFileAtPath} \cup {[exists |-> TRUE, text |-> t] : t \in Texts(MaxFileLen)}

OptLine == {<<>>} \cup {<<n>> : n \in 0..MaxLineNo}

OptContent == {<<>>} \cup {<<t>> : t \in {<<>>, <<"x">>, <<"x", NL>>, <<"x", NL, "y">>}}

editorFrame == <<lessonVars, agentVars, serverVars, writerVars, retrieved, classified,
                 browserVars, tool_log, migrateVars, session>>

InitEditor ==
    /\ backend = "json"
    /\ LessonInit
    /\ driver = "none"
    /\ AgentIdle
    /\ ServerIdle
    /\ WritersIdle
    /\ retrieved = NoRetrieval
    /\ classified = NoClassification
    /\ BrowserIdle
    /\ tool_log = <<>>
    /\ MigrateIdle
    /\ session = NoSession
    /\ fs \in EditorFiles
    /\ edit = NoEdit

EditorCall ==
    /\ ~edit.done
    /\ \E command \in EditorCommands, start_line \in OptLine, end_line \in OptLine,
          content \in OptContent, io \in EditorIO :
          LET c == [command |-> command, start_line |-> start_line, end_line |-> end_line,
                    content |-> content]
              r == BlockEditorRun(fs, c, io)
          IN  /\ fs' = r.fs
              /\ edit' = [done |-> TRUE, command |-> command, start_line |-> start_line,
                          end_line |-> end_line, content |-> content, io |-> io,
                          result |-> r.result, before |-> fs]
    /\ UNCHANGED editorFrame

NextEditor == EditorCall

SpecEditor == InitEditor /\ [][NextEditor]_vars

MigratedFrom == LegacyEntries(migration.file)

IsScopeTag(tag) == HasRolePrefix(tag) \/ HasUser(tag)

MigrationDone == migration.done /\ migration.fail_at = 0

ContentTagsKept ==
    /\ backend = "json" =>
          /\ Len(lessons) = Len(MigratedFrom)
          /\ \A i \in 1..Len(MigratedFrom) :
                /\ lessons[i].content = MigratedFrom[i].content
                /\ lessons[i].tags = MigratedFrom[i].tags
    /\ backend = "vector" =>
          /\ Len(collection) = Len(MigratedFrom)
          /\ \A i \in 1..Len(MigratedFrom) :
                /\ collection[i].content = MigratedFrom[i].content
                /\ collection[i].tags = MigratedFrom[i].tags
    /\ migration.file.kind = "strings" =>
          /\ \A i \in 1..Len(lessons) : lessons[i].tags = <<>>
          /\ \A i \in 1..Len(collection) : collection[i].tags = <<>>

C24_FailedSaveChangesNothing ==
    last_save.failed =>
        /\ lessons = last_save.lessons
        /\ lessons_file = last_save.file
        /\ collection = last_save.rows

\* C25: after a save_lesson call that was not a duplicate, however its write ended, the
\* lesson file loads as the lessons stored before the call or as those lessons with
\* the new one
C25_WriteAtomic ==
    (backend = "json" /\ last_save.content # "" /\ ~last_save.dup) =>
        \/ LoadLessons(lessons_file) = LoadLessons(last_save.file)
        \/ LoadLessons(lessons_file) = lessons

\* C26: in every driver, once the process has ended (end of input, interrupt, error, or
\* done), the agent's cleanup has been run and the browser is not left open
C26_CleanupBeforeExit ==
    session.pc = "exited" => (session.cleanups > 0 /\ ~session.browser_open)

\* C27: once a call failed with "browser not connected", no later call works on the
\* context that was lost: a call is in its branch only on a context created since
C27_ReinitAfterLost ==
    \A c \in Callers : browser_calls[c].pc = "act" => ~context_lost

\* the assistant messages of a log that carry an answer: a terminate call with a
\* non-empty output, or non-empty content
Answering(msgs) ==
    {i \in 1..Len(msgs) :
        /\ msgs[i].role = "assistant"
        /\ \/ msgs[i].content # <<>>
           \/ \E k \in 1..Len(msgs[i].tool_calls) : TerminateOutput(msgs[i].tool_calls[k]) # <<>>}

\* what the newest answering message gives: a terminate output of it if it has one,
\* else its content
NewestAnswers(msgs) ==
    LET i == CHOOSE n \in Answering(msgs) : \A m \in Answering(msgs) : m <= n
        outs == {TerminateOutput(msgs[i].tool_calls[k]) : k \in 1..Len(msgs[i].tool_calls)}
                    \ {<<>>}
    IN  IF outs # {} THEN outs ELSE {msgs[i].content}

\* C28: whichever driver extracts it, the final answer of a log with an answering
\* assistant message is what the newest such message gives, its terminate output
\* before its content; no older message decides it
C28_NewestMessageAnswers ==
    (answer.set /\ Answering(answer.log) # {}) => answer.text \in NewestAnswers(answer.log)

\* C29: a block_editor call that returned an error left the file as it was: not
\* created, not modified
C29_ErrorChangesNothing ==
    (edit.done /\ edit.result = "error") => fs = edit.before

\* the lines of a file, without their line ends
LinesOf(f) == SplitLines(f.text)

EditedLines == LinesOf(fs)

OldLines == LinesOf(edit.before)

GivenLines == SplitLines(edit.content[1])

EditArgs(command) ==
    /\ edit.done
    /\ edit.io = "ok"
    /\ edit.command = command
    /\ edit.start_line # <<>>
    /\ command # "delete" => edit.content # <<>>
    /\ command # "insert" => edit.before.exists /\ edit.end_line # <<>>

\* C30: with n the number of lines of the file: insert at s in 1..n+1 gives lines
\* 1..s-1, the new lines, lines s..n; replace of s..e (1 <= s <= e <= n) gives lines
\* 1..s-1, the new lines, lines e+1..n; delete of s..e gives lines 1..s-1, e+1..n;
\* an editing command with a start_line outside 1..n+1 is an error
C30_LineEdits ==
    LET n == Len(OldLines)
        s == edit.start_line[1]
        e == edit.end_line[1]
    IN  /\ (EditArgs("insert") /\ 1 <= s /\ s <= n + 1) =>
              /\ edit.result = "output"
              /\ EditedLines = SubSeq(OldLines, 1, s - 1) \o GivenLines \o SubSeq(OldLines, s, n)
        /\ (EditArgs("replace") /\ 1 <= s /\ s <= e /\ e <= n) =>
              /\ edit.result = "output"
              /\ EditedLines = SubSeq(OldLines, 1, s - 1) \o GivenLines \o SubSeq(OldLines, e + 1, n)
        /\ (EditArgs("delete") /\ 1 <= s /\ s <= e /\ e <= n) =>
              /\ edit.result = "output"
              /\ EditedLines = SubSeq(OldLines, 1, s - 1) \o SubSeq(OldLines, e + 1, n)
        /\ \A command \in {"insert", "replace", "delete"} :
              (EditArgs(command) /\ (s < 1 \/ s > n + 1)) => edit.result = "error"

====
